---- MODULE Spec2Model ----
(***************************************************************************)
(* Model of src/input.rs of make_cabana_route: the CSV record parser       *)
(* (CANMessage::parse_from), the log reader (read_can_messages), the gap   *)
(* detector (find_missing_can_messages) and the alert densifier            *)
(* (expand_alerts).                                                        *)
(*                                                                         *)
(* The four functions are pure, so each has a specification of its own:    *)
(* Init draws the function's input from a bounded set and the single       *)
(* action applies the function, computed the way the code computes it.     *)
(* Timestamps are nanoseconds, as in the code (Nanos).                     *)
(***************************************************************************)
EXTENDS Integers, Sequences, FiniteSets

VARIABLES
    pc,            \* "start" before the call, "done" after it
    record,        \* parse_from: the csv::StringRecord, a sequence of fields
    marker,        \* parse_from: the direction marker inserted for the second call
    ts_offs,       \* parse_from: the timestamp origin
    parsed,        \* parse_from(record, ts_offs)
    parsedMarked,  \* parse_from(record with the marker inserted, ts_offs)
    rows,          \* read_can_messages: what each data row of the file was written from
    file,          \* read_can_messages: the items rdr.records() yields
    can_ts_offs,   \* read_can_messages: Option<Nanos>
    origin,        \* read_can_messages: the resolved can_ts_offs (the one it prints)
    readResult,    \* read_can_messages: Result<Vec<CANMessage>>
    messages,      \* find_missing_can_messages: &[CANMessage]
    missing,       \* find_missing_can_messages: the returned Vec<Alert>
    alerts,        \* expand_alerts: Vec<Alert>
    expanded       \* expand_alerts: the returned Vec<LogInput>

vars == <<pc, record, marker, ts_offs, parsed, parsedMarked, rows, file,
          can_ts_offs, origin, readResult, messages, missing, alerts, expanded>>

parseVars == <<record, marker, ts_offs, parsed, parsedMarked>>
readVars == <<rows, file, can_ts_offs, origin, readResult>>
gapVars == <<messages, missing>>
expandVars == <<alerts, expanded>>

(***************************************************************************)
(* Bounds of the model.                                                    *)
(***************************************************************************)
\* longest alert list given to expand_alerts
MaxAlerts == 3
\* alert timestamps are 0, 50ms, ..., MaxAlertTick * 50ms
MaxAlertTick == 6
\* longest message list given to find_missing_can_messages
MaxMessages == 4
\* message timestamps are 0, 250ms, ..., MaxGapTick * 250ms
MaxGapTick == 7
\* most data rows in a file given to read_can_messages
MaxRows == 3
\* raw row timestamps are 0..MaxRawUs microseconds
MaxRawUs == 2
\* most data fields d1..dk in a record given to parse_from
MaxData == 9

(***************************************************************************)
(* Option<T> and Result<T>.                                                *)
(***************************************************************************)
None == [some |-> FALSE, v |-> <<>>]
Some(x) == [some |-> TRUE, v |-> x]

Ok(x) == [ok |-> TRUE, val |-> x, err |-> <<>>]
Err(e) == [ok |-> FALSE, val |-> <<>>, err |-> e]

AlertStatus == {"Normal", "UserPrompt", "Critical"}

Alert(timestamp, status, message) ==
    [timestamp |-> timestamp, status |-> status, message |-> message]

CANMessage(timestamp, can_id, is_extended_id, bus_no, data) ==
    [timestamp |-> timestamp, can_id |-> can_id,
     is_extended_id |-> is_extended_id, bus_no |-> bus_no, data |-> data]

LogInputAlert(a) == [kind |-> "Alert", alert |-> a]

\* LogInput::timestamp, for the Alert variant (the only one expand_alerts builds)
timestamp(input) == input.alert.timestamp

(***************************************************************************)
(* find_missing_can_messages                                               *)
(***************************************************************************)
MISSING_THRESHOLD == 500000000

GapExceeds_Inclusive(gap) == gap >= MISSING_THRESHOLD

\* the test of the loop body: m.timestamp() - last_timestamp > MISSING_THRESHOLD
GapExceeds(gap) == gap > MISSING_THRESHOLD

\* format!("Possible lost CAN messages.\nGap of {:.3}s with no message", gap / 1e9):
\* the text with the gap in whole seconds and thousandths, rounded to nearest
GapMessage(gap) ==
    LET millis == (gap + 500000) \div 1000000
    IN  <<"Possible lost CAN messages.\nGap of ", millis \div 1000, ".",
          millis % 1000, "s with no message">>

RECURSIVE GapLoop(_, _, _, _)
\* for m in messages { ... last_timestamp = m.timestamp(); }
GapLoop(msgs, i, last_timestamp, result) ==
    IF i > Len(msgs)
    THEN result
    ELSE LET m == msgs[i]
             gap == m.timestamp - last_timestamp
             pushed ==
                 IF GapExceeds(gap)
                 THEN result \o
                      << Alert(last_timestamp, "Critical", Some(GapMessage(gap))),
                         Alert(m.timestamp, "Normal", None) >>
                 ELSE result
         IN  GapLoop(msgs, i + 1, m.timestamp, pushed)

find_missing_can_messages(msgs) ==
    LET last_timestamp == IF Len(msgs) > 0 THEN msgs[1].timestamp ELSE 0
    IN  GapLoop(msgs, 1, last_timestamp, <<>>)

(***************************************************************************)
(* expand_alerts                                                           *)
(***************************************************************************)
\* ts += 100_000_000; // 100ms
AlertStep == 100000000

NextAt_PastLast(as, i, last_ts) ==
    IF i < Len(as) THEN as[i + 1].timestamp ELSE last_ts + AlertStep

\* peekable.peek().map(|a| a.timestamp).unwrap_or(last_ts), alert i being the
\* one peekable.next() just returned
NextAt(as, i, last_ts) ==
    IF i < Len(as) THEN as[i + 1].timestamp ELSE last_ts

CursorBefore_Inclusive(ts, next_at) == ts <= next_at

\* while ts < next_at
CursorBefore(ts, next_at) == ts < next_at

RECURSIVE RepeatAlert(_, _, _, _)
\* the inner loop: clone the alert at ts, push it, advance ts by 100ms
RepeatAlert(alert, ts, next_at, result) ==
    IF CursorBefore(ts, next_at)
    THEN RepeatAlert(alert, ts + AlertStep, next_at,
                     Append(result, LogInputAlert([alert EXCEPT !.timestamp = ts])))
    ELSE [ts |-> ts, result |-> result]

RECURSIVE ExpandLoop(_, _, _, _, _)
\* while let Some(alert) = peekable.next() { ... }; ts is never reset
ExpandLoop(as, i, last_ts, ts, result) ==
    IF i > Len(as)
    THEN result
    ELSE LET next_at == NextAt(as, i, last_ts)
             r == RepeatAlert(as[i], ts, next_at, result)
         IN  ExpandLoop(as, i + 1, last_ts, r.ts, r.result)

expand_alerts(as) ==
    LET first_ts == IF Len(as) > 0 THEN as[1].timestamp ELSE 0
        last_ts == IF Len(as) > 0 THEN as[Len(as)].timestamp ELSE first_ts
    IN  ExpandLoop(as, 1, last_ts, first_ts, <<>>)

(***************************************************************************)
(* Text.  A field of a record is a string, modelled as the sequence of its *)
(* characters, so that parsing it is computed digit by digit.              *)
(***************************************************************************)
\* char::to_digit: the value of a digit character, 36 for a character that is
\* a digit in no radix
DigitValue(c) ==
    CASE c = "0" -> 0 [] c = "1" -> 1 [] c = "2" -> 2 [] c = "3" -> 3
      [] c = "4" -> 4 [] c = "5" -> 5 [] c = "6" -> 6 [] c = "7" -> 7
      [] c = "8" -> 8 [] c = "9" -> 9
      [] c \in {"a", "A"} -> 10 [] c \in {"b", "B"} -> 11
      [] c \in {"c", "C"} -> 12 [] c \in {"d", "D"} -> 13
      [] c \in {"e", "E"} -> 14 [] c \in {"f", "F"} -> 15
      [] OTHER -> 36

RECURSIVE DigitsValue(_, _, _, _)
\* the digits of src from position i on, accumulated onto acc
DigitsValue(src, radix, i, acc) ==
    IF i > Len(src)
    THEN acc
    ELSE DigitsValue(src, radix, i + 1, acc * radix + DigitValue(src[i]))

\* <integer>::from_str_radix of the standard library: an empty string, a lone
\* sign, a character that is no digit of the radix, or a value over max fails;
\* "-" is a sign for a signed type only.  (The fields of this model stay far
\* below the widths of i64 and u32, whose max is given as the largest integer
\* TLC holds.)
from_str_radix(src, radix, is_signed_ty, max) ==
    IF Len(src) = 0
    THEN Err("cannot parse integer from empty string")
    ELSE IF src[1] \in {"+", "-"} /\ Len(src) = 1
    THEN Err("invalid digit found in string")
    ELSE LET negative == src[1] = "-" /\ is_signed_ty
             digits == IF src[1] = "+" \/ negative THEN Tail(src) ELSE src
         IN  IF \E i \in 1..Len(digits) : DigitValue(digits[i]) >= radix
             THEN Err("invalid digit found in string")
             ELSE LET v == DigitsValue(digits, radix, 1, 0)
                  IN  IF v > max
                      THEN Err("number too large to fit in target type")
                      ELSE Ok(IF negative THEN 0 - v ELSE v)

Tx == <<"T", "x">>
Rx == <<"R", "x">>
TrueText == <<"t", "r", "u", "e">>

(***************************************************************************)
(* CANMessage::parse_from                                                  *)
(***************************************************************************)
\* fields.next() at position i of the record
FieldAt(rec, i) == IF i <= Len(rec) THEN Some(rec[i]) ELSE None

IsTxRx_TxOnly(field) == field = Some(Tx)

\* !(maybe_tx_rx != Some("Tx") && maybe_tx_rx != Some("Rx"))
IsTxRx(field) == field.some /\ (field.v = Tx \/ field.v = Rx)

\* the position of the field that `next` holds: the fourth, or the fifth when
\* the fourth is the Rx/Tx field
BusPosition(rec) == IF IsTxRx(FieldAt(rec, 4)) THEN 5 ELSE 4

\* fields.take(8): the fields after the dlen field, at most eight of them
DataFields(rec) ==
    LET start == BusPosition(rec) + 2
        count == IF Len(rec) - start + 1 > 8 THEN 8 ELSE Len(rec) - start + 1
    IN  IF count <= 0 THEN <<>> ELSE SubSeq(rec, start, start + count - 1)

parse_from(rec, offs) ==
    LET ts_field == FieldAt(rec, 1)
        id_field == FieldAt(rec, 2)
        ext_field == FieldAt(rec, 3)
        next == FieldAt(rec, BusPosition(rec))
    IN  IF ~ts_field.some THEN Err("Missing ts field") ELSE
        LET ts_us == from_str_radix(ts_field.v, 10, TRUE, 2147483647) IN
        IF ~ts_us.ok THEN Err(ts_us.err) ELSE
        IF ~id_field.some THEN Err("Missing can id field") ELSE
        LET can_id == from_str_radix(id_field.v, 16, FALSE, 2147483647) IN
        IF ~can_id.ok THEN Err(can_id.err) ELSE
        IF ~ext_field.some THEN Err("Missing is_extended_id field") ELSE
        LET is_extended_id == ext_field.v = TrueText IN
        IF ~next.some THEN Err("Missing bus field") ELSE
        LET bus_no == from_str_radix(next.v, 10, FALSE, 255) IN
        IF ~bus_no.ok THEN Err("Invalid bus field") ELSE
        LET fields == DataFields(rec)
            data == [i \in 1..Len(fields) |-> from_str_radix(fields[i], 16, FALSE, 255)]
        IN  IF \E i \in 1..Len(fields) : ~data[i].ok
            THEN Err("Error parsing CSV data field")
            ELSE Ok(CANMessage(ts_us.val * 1000 - offs, can_id.val, is_extended_id,
                               bus_no.val, [i \in 1..Len(fields) |-> data[i].val]))

(***************************************************************************)
(* read_can_messages                                                       *)
(***************************************************************************)
ResolveOrigin_NoPeek(items, offs) == IF offs.some THEN offs.v ELSE 0

\* can_ts_offs.unwrap_or_else(|| match records.peek() { ... })
ResolveOrigin(items, offs) ==
    IF offs.some
    THEN offs.v
    ELSE IF Len(items) > 0 /\ items[1].ok
         THEN LET message == parse_from(items[1].val, 0)
              IN  IF message.ok THEN message.val.timestamp ELSE 0
         ELSE 0

\* the closure given to map: row is the index enumerate() gives, from 0
MapRecord(row, rec, offs) ==
    IF rec.ok
    THEN LET r == parse_from(rec.val, offs)
         IN  IF r.ok
             THEN r
             ELSE Err([kind |-> "Invalid CAN data found in CSV", row |-> row + 1,
                       cause |-> r.err])
    ELSE Err([kind |-> "Invalid CSV record in file", row |-> 0, cause |-> rec.err])

FilterKeep_DropsErrors(r) == IF r.ok THEN r.val.timestamp >= 0 ELSE FALSE

\* the closure given to filter
FilterKeep(r) == IF r.ok THEN r.val.timestamp >= 0 ELSE TRUE

RECURSIVE Collect(_, _, _, _)
\* .collect::<Result<Vec<CANMessage>>>(): the kept items up to the first error
Collect(items, offs, i, acc) ==
    IF i > Len(items)
    THEN Ok(acc)
    ELSE LET r == MapRecord(i - 1, items[i], offs)
         IN  IF ~FilterKeep(r)
             THEN Collect(items, offs, i + 1, acc)
             ELSE IF ~r.ok
                  THEN r
                  ELSE Collect(items, offs, i + 1, Append(acc, r.val))

InsertSorted_BeforeEquals(sorted, m) ==
    LET k == Cardinality({j \in 1..Len(sorted) : sorted[j].timestamp < m.timestamp})
    IN  SubSeq(sorted, 1, k) \o <<m>> \o SubSeq(sorted, k + 1, Len(sorted))

\* one step of a stable sort by Ord for CANMessage (the timestamp alone): m goes
\* after every element that is not greater
InsertSorted(sorted, m) ==
    LET k == Cardinality({j \in 1..Len(sorted) : sorted[j].timestamp <= m.timestamp})
    IN  SubSeq(sorted, 1, k) \o <<m>> \o SubSeq(sorted, k + 1, Len(sorted))

RECURSIVE sort(_)
\* result.sort(): slice::sort is stable
sort(v) ==
    IF Len(v) = 0
    THEN <<>>
    ELSE InsertSorted(sort(SubSeq(v, 1, Len(v) - 1)), v[Len(v)])

read_can_messages(items, offs) ==
    LET resolved == ResolveOrigin(items, offs)
        result == Collect(items, resolved, 1, <<>>)
    IN  IF result.ok THEN Ok(sort(result.val)) ELSE result

(***************************************************************************)
(* Inputs.                                                                 *)
(***************************************************************************)
SeqsUpTo(S, n) == UNION {[1..k -> S] : k \in 0..n}

SortedByTimestamp(s) ==
    \A i \in 1..(Len(s) - 1) : s[i].timestamp <= s[i + 1].timestamp

AlertTimes == {k * 50000000 : k \in 0..MaxAlertTick}

\* the alerts of the inputs: a clear entry, onsets with a message, and an onset
\* without one
AlertKinds ==
    { [status |-> "Normal", message |-> None],
      [status |-> "UserPrompt", message |-> Some(<<"text">>)],
      [status |-> "Critical", message |-> Some(<<"text">>)],
      [status |-> "Critical", message |-> None] }

NonDecreasing(t) == \A i \in 1..(Len(t) - 1) : t[i] <= t[i + 1]

\* the chronologically sorted lists of k timestamps
SortedTimes(k) == {t \in [1..k -> AlertTimes] : NonDecreasing(t)}

GapTimes == {k * 250000000 : k \in 0..MaxGapTick}

MessageInputs ==
    {s \in SeqsUpTo([timestamp : GapTimes, can_id : {256}, is_extended_id : {FALSE},
                     bus_no : {0}, data : {<<1, 2>>}], MaxMessages) :
        SortedByTimestamp(s)}

\* the digits of a number 0..15 and of a two-digit hexadecimal byte
HexDigits ==
    <<"0", "1", "2", "3", "4", "5", "6", "7", "8", "9", "A", "B", "C", "D", "E", "F">>

HexByte(b) == <<HexDigits[(b \div 16) + 1], HexDigits[(b % 16) + 1]>>

RECURSIVE Decimal(_)
Decimal(n) ==
    IF n < 10 THEN <<HexDigits[n + 1]>> ELSE Append(Decimal(n \div 10), HexDigits[(n % 10) + 1])

\* records for parse_from: the five leading fields, each well or ill formed,
\* then n data fields of which one may be no hexadecimal byte; or a record cut
\* short after its first fields
TsFields == {<<"1", "2">>, <<"-", "5">>, <<"x", "1">>}
IdFields == {<<"1", "A", "f">>, <<"G">>}
ExtFields == {TrueText, <<"0">>}
BusFields == {<<"7">>, <<"2", "5", "6">>, Tx, Rx, <<"b">>}
DlenFields == {<<"8">>, <<"z">>}

DataOf(n, bad) ==
    [i \in 1..n |-> IF i = bad THEN <<"Z", "Z">> ELSE HexByte(i * 17)]

FullRecords ==
    {<<t, c, e, b, d>> \o DataOf(n[1], n[2]) :
        t \in TsFields, c \in IdFields, e \in ExtFields, b \in BusFields,
        d \in DlenFields,
        n \in {x \in (0..MaxData) \X (0..MaxData) : x[2] <= x[1]}}

ShortRecords ==
    {SubSeq(<<t, c, e, b>>, 1, cut) :
        t \in TsFields, c \in IdFields, e \in ExtFields, b \in BusFields,
        cut \in 0..4}

\* the record with the direction marker inserted after is_extended_id
InsertMarker(rec, m) ==
    LET at == IF Len(rec) < 3 THEN Len(rec) ELSE 3
    IN  SubSeq(rec, 1, at) \o <<m>> \o SubSeq(rec, at + 1, Len(rec))

\* data rows for read_can_messages: row i of the file is written from its raw
\* timestamp in microseconds and its shape, with i as its CAN id
RowShapes == {"plain", "marked", "baddata", "csverr"}

RowKinds == [ts_us : 0..MaxRawUs, shape : RowShapes]

WellFormed(row) == row.shape \in {"plain", "marked"}

RecordOf(row, i) ==
    CASE row.shape = "plain" ->
            Ok(<<Decimal(row.ts_us), Decimal(i), TrueText, <<"1">>, <<"2">>,
                 <<"0", "A">>, <<"0", "B">>>>)
      [] row.shape = "marked" ->
            Ok(<<Decimal(row.ts_us), Decimal(i), <<"f">>, Rx, <<"0">>, <<"1">>,
                 <<"F", "F">>>>)
      [] row.shape = "baddata" ->
            Ok(<<Decimal(row.ts_us), Decimal(i), TrueText, <<"1">>, <<"1">>,
                 <<"Z", "Z">>>>)
      [] OTHER -> Err("CSV error")

Origins == {None, Some(1000)}

(***************************************************************************)
(* Specifications.                                                         *)
(***************************************************************************)
IdleParse ==
    /\ record = <<>> /\ marker = <<>> /\ ts_offs = 0
    /\ parsed = None /\ parsedMarked = None

IdleRead ==
    /\ rows = <<>> /\ file = <<>> /\ can_ts_offs = None
    /\ origin = 0 /\ readResult = None

IdleGap == messages = <<>> /\ missing = <<>>

IdleExpand == alerts = <<>> /\ expanded = <<>>

InitGap ==
    /\ pc = "start"
    /\ messages \in MessageInputs
    /\ missing = <<>>
    /\ IdleParse /\ IdleRead /\ IdleExpand

FindMissingCanMessages ==
    /\ pc = "start"
    /\ missing' = find_missing_can_messages(messages)
    /\ pc' = "done"
    /\ UNCHANGED <<messages, parseVars, readVars, expandVars>>

NextGap == FindMissingCanMessages

SpecGap == InitGap /\ [][NextGap]_vars

InitExpand ==
    /\ pc = "start"
    /\ \E k \in 0..MaxAlerts :
          \E t \in SortedTimes(k), b \in [1..k -> AlertKinds] :
              alerts = [i \in 1..k |-> Alert(t[i], b[i].status, b[i].message)]
    /\ expanded = <<>>
    /\ IdleParse /\ IdleRead /\ IdleGap

ExpandAlerts ==
    /\ pc = "start"
    /\ expanded' = expand_alerts(alerts)
    /\ pc' = "done"
    /\ UNCHANGED <<alerts, parseVars, readVars, gapVars>>

NextExpand == ExpandAlerts

SpecExpand == InitExpand /\ [][NextExpand]_vars

InitParse ==
    /\ pc = "start"
    /\ record \in FullRecords \cup ShortRecords
    /\ marker \in {Tx, Rx}
    /\ ts_offs \in {0, 3000}
    /\ parsed = None /\ parsedMarked = None
    /\ IdleRead /\ IdleGap /\ IdleExpand

\* parse_from on the record as it is and on the record with the marker inserted
ParseFrom ==
    /\ pc = "start"
    /\ parsed' = parse_from(record, ts_offs)
    /\ parsedMarked' = parse_from(InsertMarker(record, marker), ts_offs)
    /\ pc' = "done"
    /\ UNCHANGED <<record, marker, ts_offs, readVars, gapVars, expandVars>>

NextParse == ParseFrom

SpecParse == InitParse /\ [][NextParse]_vars

InitRead ==
    /\ pc = "start"
    /\ rows \in SeqsUpTo(RowKinds, MaxRows)
    /\ file = [i \in 1..Len(rows) |-> RecordOf(rows[i], i)]
    /\ can_ts_offs \in Origins
    /\ origin = 0
    /\ readResult = None
    /\ IdleParse /\ IdleGap /\ IdleExpand

ReadCanMessages ==
    /\ pc = "start"
    /\ origin' = ResolveOrigin(file, can_ts_offs)
    /\ readResult' = read_can_messages(file, can_ts_offs)
    /\ pc' = "done"
    /\ UNCHANGED <<rows, file, can_ts_offs, parseVars, gapVars, expandVars>>

NextRead == ReadCanMessages

SpecRead == InitRead /\ [][NextRead]_vars

(***************************************************************************)
(* Claims about CANMessage::parse_from (checked under SpecParse).          *)
(***************************************************************************)
\* the same BusEvent, or failure in both cases
SameOutcome(a, b) == a.ok = b.ok /\ (a.ok => a.val = b.val)

\* C9 as stated: a row and the same row with "Tx" or "Rx" inserted after
\* is_extended give the same BusEvent or fail both, and the payload has at
\* most 8 bytes
C9_MarkerMakesNoDifference ==
    (pc = "done" /\ Len(record) >= 3) =>
        /\ SameOutcome(parsed, parsedMarked)
        /\ parsed.ok => Len(parsed.val.data) <= 8
        /\ parsedMarked.ok => Len(parsedMarked.val.data) <= 8

\* C9 as amended: the same, for a row whose own fourth field (its bus field) is
\* not itself exactly "Tx" or "Rx"; the payload has at most 8 bytes for every row
C9_MarkerMakesNoDifferenceUnlessBusIsMarker ==
    pc = "done" =>
        /\ (Len(record) >= 3 /\ (Len(record) >= 4 => record[4] \notin {Tx, Rx}))
              => SameOutcome(parsed, parsedMarked)
        /\ parsed.ok => Len(parsed.val.data) <= 8
        /\ parsedMarked.ok => Len(parsedMarked.val.data) <= 8

\* C9 witness: a well-formed row with nine data fields and the same row with
\* "Rx" inserted have both been parsed, to a message of eight bytes
C9_Witness ==
    /\ pc = "done"
    /\ Len(record) = 14
    /\ marker = Rx
    /\ parsed.ok /\ parsedMarked.ok
    /\ parsed.val = parsedMarked.val
    /\ Len(parsed.val.data) = 8

(***************************************************************************)
(* Claims about read_can_messages (checked under SpecRead).  Row i of the  *)
(* file was written with raw timestamp rows[i].ts_us and CAN id i.         *)
(***************************************************************************)
\* the origin-adjusted timestamp of data row i
Adjusted(i) == rows[i].ts_us * 1000 - origin

RetainedRows == {i \in 1..Len(rows) : Adjusted(i) >= 0}

\* the place of retained row i in a stable sort by timestamp
PlaceOf(i) ==
    Cardinality({j \in RetainedRows :
                    \/ Adjusted(j) < Adjusted(i)
                    \/ Adjusted(j) = Adjusted(i) /\ j <= i})

MalformedRows == {i \in 1..Len(rows) : ~WellFormed(rows[i])}

\* C6: on success the result holds exactly the rows whose origin-adjusted
\* timestamp is >= 0, each once, non-decreasing by timestamp, rows of equal
\* timestamp in file order
C6_RetainedRowsStablySorted ==
    (pc = "done" /\ readResult.ok) =>
        /\ Len(readResult.val) = Cardinality(RetainedRows)
        /\ \A i \in RetainedRows :
              /\ readResult.val[PlaceOf(i)].can_id = i
              /\ readResult.val[PlaceOf(i)].timestamp = Adjusted(i)
        /\ \A k \in 1..(Len(readResult.val) - 1) :
              readResult.val[k].timestamp <= readResult.val[k + 1].timestamp

\* C6 witness: a file with a row before the origin and two later rows of equal
\* timestamp has been read: the first is dropped, the two are kept in file order
C6_Witness ==
    /\ pc = "done"
    /\ readResult.ok
    /\ Len(rows) = 3
    /\ Len(readResult.val) = 2
    /\ readResult.val[1].timestamp = readResult.val[2].timestamp
    /\ readResult.val[1].can_id < readResult.val[2].can_id

\* C7: with no explicit origin and rows that all parse, the origin is the first
\* data row's raw_us * 1000, the first row gets timestamp 0 and is retained, and
\* the first event returned has timestamp 0; with an explicit origin that origin
\* is used for every row, whatever the first row is
C7_OriginFromFirstRow ==
    pc = "done" =>
        /\ (~can_ts_offs.some /\ Len(rows) > 0 /\ MalformedRows = {}) =>
              /\ origin = rows[1].ts_us * 1000
              /\ readResult.ok
              /\ \E k \in 1..Len(readResult.val) :
                    readResult.val[k].can_id = 1 /\ readResult.val[k].timestamp = 0
              /\ readResult.val[1].timestamp = 0
        /\ can_ts_offs.some =>
              /\ origin = can_ts_offs.v
              /\ readResult.ok =>
                    \A k \in 1..Len(readResult.val) :
                        readResult.val[k].timestamp
                            = rows[readResult.val[k].can_id].ts_us * 1000 - can_ts_offs.v

\* C7 witness: a file read with no explicit origin whose second row has a
\* smaller raw timestamp than its first: the origin is not 0 and a row is dropped
C7_Witness ==
    /\ pc = "done"
    /\ ~can_ts_offs.some
    /\ Len(rows) >= 2
    /\ rows[2].ts_us < rows[1].ts_us
    /\ readResult.ok
    /\ origin > 0
    /\ Len(readResult.val) < Len(rows)

\* C8: if any data row is malformed the call fails and returns no events; a
\* field-level failure is reported with the 1-based index of the failing data
\* row, the first row counting as row 1; the negative-timestamp filter removes
\* no error
C8_AnyMalformedRowFails ==
    (pc = "done" /\ MalformedRows # {}) =>
        LET failing == CHOOSE i \in MalformedRows : \A j \in MalformedRows : i <= j
        IN  /\ ~readResult.ok
            /\ readResult.val = <<>>
            /\ rows[failing].shape = "baddata" =>
                  /\ readResult.err.kind = "Invalid CAN data found in CSV"
                  /\ readResult.err.row = failing
            /\ rows[failing].shape = "csverr" =>
                  readResult.err.kind = "Invalid CSV record in file"

\* C8 witness: a file read with the origin taken from its first row, whose
\* second row has a bad field and a raw timestamp before the origin: the call
\* failed naming row 2
C8_Witness ==
    /\ pc = "done"
    /\ ~can_ts_offs.some
    /\ Len(rows) >= 2
    /\ WellFormed(rows[1])
    /\ rows[2].shape = "baddata"
    /\ rows[2].ts_us < rows[1].ts_us
    /\ ~readResult.ok
    /\ readResult.err.row = 2

(***************************************************************************)
(* Claims about find_missing_can_messages (checked under SpecGap).         *)
(***************************************************************************)
\* the positions i whose gap to the previous event is over half a second
GapIndices ==
    {i \in 2..Len(messages) :
        messages[i].timestamp - messages[i - 1].timestamp > 500000000}

\* C1: on a timestamp-sorted input the output is exactly, for each consecutive
\* pair more than 500,000,000 ns apart (strictly), in order, a Critical alert
\* with a message (the gap in seconds to three decimals) at the earlier
\* timestamp followed by a Normal alert without a message at the later one, and
\* nothing else; so it is empty when no gap is over the threshold, has two
\* alerts per gap, and is non-decreasing by timestamp.
C1_GapAlertsExact ==
    pc = "done" =>
        /\ Len(missing) = 2 * Cardinality(GapIndices)
        /\ \A i \in GapIndices :
              LET j == Cardinality({g \in GapIndices : g <= i})
                  gap == messages[i].timestamp - messages[i - 1].timestamp
                  onset == missing[2 * j - 1]
                  clear == missing[2 * j]
              IN  /\ onset.status = "Critical"
                  /\ onset.timestamp = messages[i - 1].timestamp
                  /\ onset.message.some
                  /\ onset.message.v[2] = gap \div 1000000000
                  /\ onset.message.v[4] = (gap % 1000000000) \div 1000000
                  /\ clear.status = "Normal"
                  /\ clear.timestamp = messages[i].timestamp
                  /\ ~clear.message.some
        /\ \A k \in 1..(Len(missing) - 1) :
              missing[k].timestamp <= missing[k + 1].timestamp

\* C1 witness: an input with a gap over the threshold and a gap of exactly
\* 500,000,000 ns has been scanned, and the one pair of alerts came out
C1_Witness ==
    /\ pc = "done"
    /\ Len(missing) = 2
    /\ \E i \in 2..Len(messages) :
          messages[i].timestamp - messages[i - 1].timestamp = 500000000

(***************************************************************************)
(* Claims about expand_alerts (checked under SpecExpand).                  *)
(***************************************************************************)
\* the index of the alert in force at time t: the last one that started by t
InForce(t) ==
    CHOOSE i \in 1..Len(alerts) :
        /\ alerts[i].timestamp <= t
        /\ \A j \in (i + 1)..Len(alerts) : alerts[j].timestamp > t

FirstTs == alerts[1].timestamp
LastTs == alerts[Len(alerts)].timestamp

\* the timestamps first_ts + k * 100ms that lie before last_ts
CadenceTimes ==
    {t \in {FirstTs + k * 100000000 : k \in 0..MaxAlertTick} : t < LastTs}

\* the sampling instants the claims are tried at: every 25ms from the first to
\* the last alert
SampleInstants ==
    {t \in {k * 25000000 : k \in 0..(2 * MaxAlertTick)} :
        Len(alerts) > 0 /\ FirstTs <= t /\ t <= LastTs}

OutputTimes == {timestamp(expanded[k]) : k \in 1..Len(expanded)}

ExampleAlerts ==
    << Alert(0, "Critical", Some(<<"text">>)), Alert(250000000, "Normal", None) >>

\* C2: the output is exactly the entries at first_ts + k * 100,000,000 for
\* k = 0, 1, 2, ... while that timestamp is < last_ts, in increasing order, each
\* a copy (same status and message) of the last input alert that started at or
\* before it; [Critical@0, Normal@250ms] gives Critical at 0, 100ms and 200ms.
C2_ExpandExact ==
    pc = "done" =>
        /\ Len(alerts) = 0 => expanded = <<>>
        /\ Len(alerts) > 0 =>
              /\ Len(expanded) = Cardinality(CadenceTimes)
              /\ \A k \in 1..Len(expanded) :
                    LET e == expanded[k]
                        src == alerts[InForce(e.alert.timestamp)]
                    IN  /\ e.kind = "Alert"
                        /\ e.alert.timestamp = FirstTs + (k - 1) * 100000000
                        /\ e.alert.status = src.status
                        /\ e.alert.message = src.message
        /\ alerts = ExampleAlerts =>
              expanded = << LogInputAlert(Alert(0, "Critical", Some(<<"text">>))),
                            LogInputAlert(Alert(100000000, "Critical", Some(<<"text">>))),
                            LogInputAlert(Alert(200000000, "Critical", Some(<<"text">>))) >>

\* C2 witness: [Critical@0, Normal@250ms] has been expanded to three entries
C2_Witness ==
    /\ pc = "done"
    /\ alerts = ExampleAlerts
    /\ Len(expanded) = 3

\* C5: an empty input and an input of exactly one alert give an empty output
C5_EmptyAndSingleGiveNothing ==
    (pc = "done" /\ Len(alerts) <= 1) => expanded = <<>>

\* C5 witness: a single Critical alert at a non-zero timestamp has been expanded
C5_Witness ==
    /\ pc = "done"
    /\ Len(alerts) = 1
    /\ alerts[1].status = "Critical"
    /\ alerts[1].timestamp > 0

\* C3: for a non-empty input, every time T from the first to the last alert's
\* timestamp has an output entry at or before it, at most 100,000,000 ns back
C3_EntryWithin100ms ==
    (pc = "done" /\ Len(alerts) > 0) =>
        \A T \in SampleInstants :
            \E t \in OutputTimes : t <= T /\ T - t <= 100000000

\* C4: at every sampling instant T from the first to the last alert's timestamp
\* the nearest preceding output entry carries the status of the alert in force
\* at T (an instant with no preceding entry is left to C3)
C4_NearestEntryHasStatusInForce ==
    (pc = "done" /\ Len(alerts) > 0) =>
        \A T \in SampleInstants :
            \A k \in 1..Len(expanded) :
                (/\ expanded[k].alert.timestamp <= T
                 /\ \A l \in 1..Len(expanded) :
                       expanded[l].alert.timestamp <= T =>
                           expanded[l].alert.timestamp <= expanded[k].alert.timestamp)
                => expanded[k].alert.status = alerts[InForce(T)].status

\* C10: with at least two alerts, every alert but the last is repeated until the
\* next one starts: the output has at least one entry copied from it, and its
\* entries are 100,000,000 ns apart and lie in [its timestamp, the next one's).
\* An alert whose successor has the same timestamp has an empty interval and is
\* not asked for an entry.
C10_EveryAlertRepeated ==
    (pc = "done" /\ Len(alerts) >= 2) =>
        \A i \in 1..(Len(alerts) - 1) :
            LET from == alerts[i].timestamp
                to == alerts[i + 1].timestamp
                own == {k \in 1..Len(expanded) :
                           /\ from <= expanded[k].alert.timestamp
                           /\ expanded[k].alert.timestamp < to}
            IN  /\ from < to => own # {}
                /\ \A k \in own :
                      /\ expanded[k].alert.status = alerts[i].status
                      /\ expanded[k].alert.message = alerts[i].message
                      /\ (k + 1) \in own =>
                            expanded[k + 1].alert.timestamp
                                = expanded[k].alert.timestamp + 100000000

====
